---------------------------- MODULE Spec2Model ----------------------------
(***************************************************************************)
(* prospectimo: lexical scoring of the temporal orientation of a string.   *)
(*                                                                         *)
(* The model covers the matcher (getMatches), the scorer (calcLex), the    *)
(* orientation selector (getOrientation) and the entry point prospectimo   *)
(* of the versions kept in the repository.  A state records one call: the  *)
(* operation applied, its arguments, the intermediate values the call      *)
(* computed and the value it returned (or the exception it raised).        *)
(*                                                                         *)
(* Numbers.  Lexicon weights and intercepts are written in thousandths     *)
(* (0.236749577324 is 237).  A JavaScript number is a record               *)
(*   [k |-> "fin", n |-> numerator, d |-> denominator > 0]  (lowest terms) *)
(* or one of the three IEEE specials "pinf", "ninf", "nan" (n = d = 0),    *)
(* which the division by a word count of 0 produces.                       *)
(*                                                                         *)
(* Strings.  A token or lexicon key is a TLA+ string; the words of a       *)
(* phrase are joined by one space.  An input string is kept as the         *)
(* sequence of its whitespace-separated chunks.                            *)
(***************************************************************************)
EXTENDS Integers, Sequences, FiniteSets, TLC

VARIABLES
    op,         \* the operation of the recorded call, "idle" between calls
    ver,        \* the version of the source the operation belongs to
    str,        \* prospectimo: the input argument
    opts,       \* prospectimo: the options object after the call
    tokens,     \* the token array handed to getMatches
    threshold,  \* getMatches: the threshold argument
    matches,    \* the result of getMatches
    wordcount,  \* calcLex: the wc argument
    enc,        \* calcLex: the enc argument
    icpt,       \* calcLex: the int argument (unit call only)
    lex,        \* the lexical values (calcLex results, getOrientation input)
    result      \* the value returned, or the exception raised

vars == <<op, ver, str, opts, tokens, threshold, matches, wordcount, enc,
          icpt, lex, result>>

-----------------------------------------------------------------------------
(* Bounds of the model *)

MaxLen == 3        \* chunks in an input string, tokens in a unit token array
MaxScore == 2      \* getOrientation unit inputs range over -MaxScore..MaxScore
MaxMatch == 2      \* entries in a unit match list handed to calcLex
MaxCount == 2      \* occurrence count of a unit match entry
MaxWc == 2         \* word count handed to calcLex in a unit call

-----------------------------------------------------------------------------
(* JavaScript values *)

JNull == [t |-> "null"]
JUndef == [t |-> "undefined"]
JArr(s) == [t |-> "arr", v |-> s]
JStr(s) == [t |-> "str", v |-> s]
JNum(x) == [t |-> "num", v |-> x]
None == [t |-> "none"]          \* a variable the recorded call does not use

\* x == null  (null or undefined)
IsNullish(x) == x.t \in {"null", "undefined"}

Abs(i) == IF i < 0 THEN -i ELSE i

RECURSIVE GCD(_, _)
GCD(a, b) == IF b = 0 THEN a ELSE GCD(b, a % b)

Fin(n, d) ==
    LET g == GCD(Abs(n), d)
    IN  [k |-> "fin", n |-> n \div g, d |-> d \div g]

Int2Num(i) == Fin(i, 1)
PInf == [k |-> "pinf", n |-> 0, d |-> 0]
NInf == [k |-> "ninf", n |-> 0, d |-> 0]
NaN == [k |-> "nan", n |-> 0, d |-> 0]
Zero == Int2Num(0)

Sign(x) ==
    CASE x.k = "pinf" -> 1
      [] x.k = "ninf" -> -1
      [] x.k = "nan" -> 0
      [] OTHER -> IF x.n > 0 THEN 1 ELSE IF x.n < 0 THEN -1 ELSE 0

\* a + b
NumAdd(a, b) ==
    CASE a.k = "nan" \/ b.k = "nan" -> NaN
      [] a.k = "fin" /\ b.k = "fin" -> Fin(a.n * b.d + b.n * a.d, a.d * b.d)
      [] a.k = "fin" -> b
      [] b.k = "fin" -> a
      [] OTHER -> IF a.k = b.k THEN a ELSE NaN

\* a * b
NumMul(a, b) ==
    CASE a.k = "nan" \/ b.k = "nan" -> NaN
      [] a.k = "fin" /\ b.k = "fin" -> Fin(a.n * b.n, a.d * b.d)
      [] OTHER -> IF Sign(a) * Sign(b) > 0 THEN PInf
                  ELSE IF Sign(a) * Sign(b) < 0 THEN NInf ELSE NaN

\* a / b
NumDiv(a, b) ==
    CASE a.k = "nan" \/ b.k = "nan" -> NaN
      [] a.k = "fin" /\ b.k = "fin" ->
            IF b.n # 0
            THEN Fin(a.n * b.d * Sign(b), a.d * Abs(b.n))
            ELSE IF a.n > 0 THEN PInf ELSE IF a.n < 0 THEN NInf ELSE NaN
      [] a.k = "fin" -> Zero
      [] b.k = "fin" -> IF Sign(a) * (IF b.n < 0 THEN -1 ELSE 1) > 0
                        THEN PInf ELSE NInf
      [] OTHER -> NaN

\* a > b  (false when either side is NaN)
NumGt(a, b) ==
    CASE a.k = "nan" \/ b.k = "nan" -> FALSE
      [] a.k = "fin" /\ b.k = "fin" -> a.n * b.d > b.n * a.d
      [] a.k = "pinf" -> b.k # "pinf"
      [] a.k = "ninf" -> FALSE
      [] OTHER -> b.k = "ninf"

\* a < 0
NumNeg(a) == Sign(a) < 0

-----------------------------------------------------------------------------
(* Categories and intercepts *)

Categories == <<"PAST", "PRESENT", "FUTURE">>
CatSet == {"PAST", "PRESENT", "FUTURE"}

IntPAST == -649
IntPRESENT == 237
IntFUTURE == -571

IntOf(cat) ==
    CASE cat = "PAST" -> IntPAST
      [] cat = "PRESENT" -> IntPRESENT
      [] cat = "FUTURE" -> IntFUTURE

Intercept(cat) == Int2Num(IntOf(cat))

-----------------------------------------------------------------------------
(* getOrientation (v2.0.0 and v0.4.0) *)

\* the scan replacing the current best on '>=': the last of equal scores wins
RECURSIVE ReduceMaxLastWins(_, _, _)
ReduceMaxLastWins(a, i, iMax) ==
    IF i > Len(a) THEN iMax - 1
    ELSE ReduceMaxLastWins(a, i + 1,
                           IF ~NumGt(a[iMax], a[i]) THEN i ELSE iMax)

\* a.reduce((iMax, x, i, arr) => x > arr[iMax] ? i : iMax, 0), 0-based result
RECURSIVE ReduceMax(_, _, _)
ReduceMax(a, i, iMax) ==
    IF i > Len(a) THEN iMax - 1
    ELSE ReduceMax(a, i + 1, IF NumGt(a[i], a[iMax]) THEN i ELSE iMax)

\* the numeric value a relational operator gives its operand: null is 0
Coerce(x) == IF x = JNull THEN Zero ELSE x

IndexOfMaxValue(obj) ==
    ReduceMax(<<Coerce(obj.PAST), Coerce(obj.PRESENT), Coerce(obj.FUTURE)>>,
              1, 1)

\* the chain of comparisons without its last branch: index 2 keeps the
\* initial value
OrientationOfTwoBranches(indexOfMaxValue, initial) ==
    IF indexOfMaxValue = 0 THEN "Past"
    ELSE IF indexOfMaxValue = 1 THEN "Present"
    ELSE initial

OrientationOf(indexOfMaxValue, initial) ==
    IF indexOfMaxValue = 0 THEN "Past"
    ELSE IF indexOfMaxValue = 1 THEN "Present"
    ELSE IF indexOfMaxValue = 2 THEN "Future"
    ELSE initial

getOrientation200(obj) == OrientationOf(IndexOfMaxValue(obj), "Unknown")

getOrientation040(obj) ==
    OrientationOf(IndexOfMaxValue(obj), "No temporal orientation detected.")

getOrientation(v, obj) ==
    IF v = "2.0.0" THEN getOrientation200(obj) ELSE getOrientation040(obj)

-----------------------------------------------------------------------------
(* The lexicon (./data/lexicon.json): category -> surface form -> weight,   *)
(* in the key order of the file.  A fixture with the documented extremes    *)
(* (largest weight 1.15807005, smallest -0.9772179), forms of one to three  *)
(* words, a form present in two categories, and a two-word form made of     *)
(* chunks the tokenizer does not return.                                    *)

Lexicon ==
    [PAST    |-> << <<"was", 1158>>, <<"is", -250>>, <<"was is", 400>> >>,
     PRESENT |-> << <<"is", 500>>, <<"was", -977>>, <<"will", -400>> >>,
     FUTURE  |-> << <<"will", 300>>, <<"! !", 300>>, <<"is will was", -100>> >>]

LexWeights == {Lexicon[c][i][2] : c \in CatSet, i \in 1..3}
MaxWeight == CHOOSE w \in LexWeights : \A x \in LexWeights : x <= w
MinWeight == CHOOSE w \in LexWeights : \A x \in LexWeights : x >= w

-----------------------------------------------------------------------------
(* Inputs *)

SeqsUpTo(S, n) == UNION {[1..m -> S] : m \in 0..n}

\* whitespace-separated chunks an input is made of; "!" is a chunk of
\* punctuation, from which the tokenizer extracts no token; "the" is a word
\* the lexicon does not hold
Chunks == {"was", "is", "will", "the", "!"}
IsWordChunk(c) == c # "!"

ChunkSeqs == SeqsUpTo(Chunks, MaxLen)

-----------------------------------------------------------------------------
(* External collaborators: the tokenizer and the n-gram generator *)

\* happynodetokenizer: the word tokens of the string in order; a string with
\* no token yields null or an empty array (emptyAsNull says which)
tokenizer(chunks, emptyAsNull) ==
    LET toks == SelectSeq(chunks, IsWordChunk)
    IN  IF toks = <<>> /\ emptyAsNull THEN JNull ELSE JArr(toks)

\* simplengrams(str, n): the windows of n consecutive whitespace-separated
\* chunks, stride 1, left to right; none when the string is shorter than n
simplengrams(chunks, n) ==
    [i \in 1..(IF Len(chunks) >= n THEN Len(chunks) - n + 1 ELSE 0) |->
        SubSeq(chunks, i, i + n - 1)]

-----------------------------------------------------------------------------
(* Helpers of v0.4.0 *)

\* Array.prototype.join(' ')
RECURSIVE Join(_)
Join(ws) ==
    IF ws = <<>> THEN ""
    ELSE IF Len(ws) = 1 THEN ws[1]
    ELSE ws[1] \o " " \o Join(Tail(ws))

\* an empty array turned into one empty phrase
arr2stringNeverEmpty(arr) ==
    IF arr = <<>> THEN <<"">> ELSE [i \in 1..Len(arr) |-> Join(arr[i])]

\* arr2string: each element of arr joined into one string
arr2string(arr) == [i \in 1..Len(arr) |-> Join(arr[i])]

\* the loop written 'while (--i)': index 0 is never looked at
indexesOfSkippingFirst(arr, el) ==
    LET hits == {i \in 2..Len(arr) : arr[i] = el}
        RECURSIVE Asc(_, _)
        Asc(i, acc) == IF i > Len(arr) THEN acc
                       ELSE Asc(i + 1, IF i \in hits THEN Append(acc, i - 1)
                                       ELSE acc)
    IN  Asc(1, <<>>)

\* indexesOf: the (0-based) indexes of arr holding el, ascending
RECURSIVE IndexesFrom(_, _, _, _)
IndexesFrom(arr, el, i, idxs) ==
    IF i = 0 THEN idxs
    ELSE IndexesFrom(arr, el, i - 1,
                     IF arr[i] = el THEN <<i - 1>> \o idxs ELSE idxs)

indexesOf(arr, el) == IndexesFrom(arr, el, Len(arr), <<>>)

\* natural.NGrams.ngrams(str, n): the windows of n consecutive words
naturalNGrams(chunks, n) == simplengrams(chunks, n)

\* getNGrams (v0.3.0): bigrams when n is null, each n-gram joined by a space
getNGrams(chunks, nArg) ==
    LET n == IF IsNullish(nArg) THEN 2 ELSE nArg.v.n
        ngrams == naturalNGrams(chunks, n)
    IN  [i \in 1..Len(ngrams) |-> Join(ngrams[i])]

\* the test written 'arr[0] === el': only the first element is looked at
indexOfAtHead(arr, el) == IF arr # <<>> /\ arr[1] = el THEN 0 ELSE -1

\* Array.prototype.indexOf: the first (0-based) index holding el, or -1
indexOf(arr, el) ==
    IF \E i \in 1..Len(arr) : arr[i] = el
    THEN (CHOOSE i \in 1..Len(arr) :
            arr[i] = el /\ \A j \in 1..(i - 1) : arr[j] # el) - 1
    ELSE -1

\* Number(x) for the values a threshold takes
ToNumber(x) ==
    CASE x.t = "num" -> x.v
      [] x.t = "null" -> Zero
      [] OTHER -> NaN

DefaultThreshold == -999

-----------------------------------------------------------------------------
(* getMatches (v0.4.0) *)

\* the filter written 'weight >= threshold'
PassesThresholdInclusive(weight, thr) == ~NumGt(thr, Int2Num(weight))

\* the weight filter of the inner loop
PassesThreshold(weight, thr) == NumGt(Int2Num(weight), thr)

\* the inner loop over the words of one category: entries [word, count, weight]
RECURSIVE MatchCategory(_, _, _, _, _)
MatchCategory(data, arr, thr, i, match) ==
    IF i > Len(data) THEN match
    ELSE LET word == data[i][1]
             weight == data[i][2]
         IN  MatchCategory(data, arr, thr, i + 1,
                IF indexOf(arr, word) > -1 /\ PassesThreshold(weight, thr)
                THEN Append(match, <<word, Len(indexesOf(arr, word)), weight>>)
                ELSE match)

\* matches[category] assigned only when the category has a match
getMatchesOnlyMatched(arr, thrArg) ==
    LET thr == IF IsNullish(thrArg) THEN Int2Num(DefaultThreshold)
               ELSE ToNumber(thrArg)
        all == [c \in CatSet |-> MatchCategory(Lexicon[c], arr.v, thr, 1, <<>>)]
    IN  [c \in {x \in CatSet : all[x] # <<>>} |-> all[c]]

getMatches040(arr, thrArg) ==
    IF IsNullish(arr) THEN JNull
    ELSE LET t1 == IF IsNullish(thrArg) THEN JNum(Int2Num(DefaultThreshold))
                   ELSE thrArg
             thr == IF t1.t # "num" THEN ToNumber(t1) ELSE t1.v
         IN  [c \in CatSet |-> MatchCategory(Lexicon[c], arr.v, thr, 1, <<>>)]

-----------------------------------------------------------------------------
(* calcLex (v0.4.0) *)

\* binary encoding adding the weight once per occurrence
CalcLexStepPerOccurrence(lexv, entry, wc, encArg) ==
    IF (encArg.t = "str" /\ encArg.v = "binary") \/ IsNullish(encArg)
          \/ IsNullish(wc)
    THEN NumAdd(lexv, Int2Num(entry[2] * entry[3]))
    ELSE NumAdd(lexv, NumMul(NumDiv(Int2Num(entry[2]), ToNumber(wc)),
                             Int2Num(entry[3])))

\* frequency encoding without the division by the word count
CalcLexStepUnscaled(lexv, entry, wc, encArg) ==
    IF (encArg.t = "str" /\ encArg.v = "binary") \/ IsNullish(encArg)
          \/ IsNullish(wc)
    THEN NumAdd(lexv, Int2Num(entry[3]))
    ELSE NumAdd(lexv, NumMul(Int2Num(entry[2]), Int2Num(entry[3])))

\* one iteration of the loop: the entry's contribution added to lex
CalcLexStep(lexv, entry, wc, encArg) ==
    IF (encArg.t = "str" /\ encArg.v = "binary") \/ IsNullish(encArg)
          \/ IsNullish(wc)
    THEN NumAdd(lexv, Int2Num(entry[3]))
    ELSE NumAdd(lexv, NumMul(NumDiv(Int2Num(entry[2]), ToNumber(wc)),
                             Int2Num(entry[3])))

RECURSIVE CalcLexLoop(_, _, _, _, _)
CalcLexLoop(obj, i, lexv, wc, encArg) ==
    IF i > Len(obj) THEN lexv
    ELSE CalcLexLoop(obj, i + 1, CalcLexStep(lexv, obj[i], wc, encArg),
                     wc, encArg)

\* the intercept added only to a list with entries: an empty list leaves
\* lex at 0
calcLex040InterceptOnMatch(obj, wc, int, encArg) ==
    IF IsNullish(obj) THEN JNull
    ELSE LET s == CalcLexLoop(obj.v, 1, Zero, wc, encArg)
         IN  IF ~IsNullish(int) /\ obj.v # <<>>
             THEN NumAdd(s, ToNumber(int)) ELSE s

calcLex040(obj, wc, int, encArg) ==
    IF IsNullish(obj) THEN JNull
    ELSE LET s == CalcLexLoop(obj.v, 1, Zero, wc, encArg)
         IN  IF ~IsNullish(int) THEN NumAdd(s, ToNumber(int)) ELSE s

-----------------------------------------------------------------------------
(* prospectimo (v0.4.0) *)

\* a || b : b when a is falsy (undefined, null, "", 0, NaN)
Falsy(x) ==
    \/ IsNullish(x)
    \/ x.t = "str" /\ x.v = ""
    \/ x.t = "num" /\ (x.v = Zero \/ x.v = NaN)

OrElse(a, b) == IF Falsy(a) THEN b ELSE a

Obj040(ret, encoding, thr) ==
    [t |-> "obj", return |-> ret, encoding |-> encoding, threshold |-> thr]

\* the default of return written by presence: a value already there, the
\* filled-in 'lex' too, selects 'orientation'
Defaults040ReturnByPresence(optsArg) ==
    LET o == IF IsNullish(optsArg)
             THEN Obj040(JUndef, JStr("binary"),
                         JNum(Int2Num(DefaultThreshold)))
             ELSE optsArg
    IN  Obj040(IF Falsy(o.return) THEN JStr("lex") ELSE JStr("orientation"),
               OrElse(o.encoding, JStr("binary")),
               OrElse(o.threshold, JNum(Int2Num(DefaultThreshold))))

\* the option defaults: the literal for a missing object, then key by key
Defaults040(optsArg) ==
    LET o == IF IsNullish(optsArg)
             THEN Obj040(JStr("lex"), JStr("binary"),
                         JNum(Int2Num(DefaultThreshold)))
             ELSE optsArg
    IN  Obj040(OrElse(o.return, JStr("lex")),
               OrElse(o.encoding, JStr("binary")),
               OrElse(o.threshold, JNum(Int2Num(DefaultThreshold))))

\* tokens.concat(bigrams).concat(trigrams)
WithNGrams(toks, chunks) ==
    toks \o arr2string(simplengrams(chunks, 2))
         \o arr2string(simplengrams(chunks, 3))

\* what a call leaves when it ends before the matcher runs
Early(o, tk, wc, r) ==
    [opts |-> o, tokens |-> tk, threshold |-> None, matches |-> None,
     wordcount |-> wc, enc |-> None, lex |-> None, result |-> r]

ReturnsNull == [kind |-> "null"]
Throws(error) == [kind |-> "throw", v |-> error]

\* if (str == null) return null
NoInput040(strArg) == IsNullish(strArg)

\* if (tokens == null) return null
NoTokens040(toks) == IsNullish(toks)

\* matches.PAST, matches.PRESENT, matches.FUTURE: undefined for a missing key
Lookup040(m, c) == IF c \in DOMAIN m THEN JArr(m[c]) ELSE JUndef

\* the whole call; the record holds what the call computed on its way
prospectimo040(strArg, optsArg, emptyAsNull) ==
    IF NoInput040(strArg) THEN Early(optsArg, None, None, ReturnsNull)
    \* str.toString() of a value without properties
    ELSE IF strArg.t # "str"
    THEN Early(optsArg, None, None, Throws("TypeError"))
    ELSE
        LET o == Defaults040(optsArg)
            toks0 == tokenizer(strArg.v, emptyAsNull)
        IN  IF NoTokens040(toks0) THEN Early(o, toks0, None, ReturnsNull)
            \* tokens.length of a value without properties
            ELSE IF toks0.t # "arr"
            THEN Early(o, toks0, None, Throws("TypeError"))
            ELSE
            LET wc == JNum(Int2Num(Len(toks0.v)))
                toks == JArr(WithNGrams(toks0.v, strArg.v))
                m == getMatches040(toks, o.threshold)
                lx == [c \in CatSet |->
                         calcLex040(Lookup040(m, c), wc, JNum(Intercept(c)),
                                    o.encoding)]
            IN  [opts |-> o, tokens |-> toks, threshold |-> o.threshold,
                 matches |-> m, wordcount |-> wc, enc |-> o.encoding,
                 lex |-> lx,
                 result |-> IF o.return = JStr("lex")
                            THEN [kind |-> "lex", v |-> lx]
                            ELSE [kind |-> "string",
                                  v |-> getOrientation040(lx)]]

-----------------------------------------------------------------------------
(* v0.1.1 and v0.0.1: getMatches, calcLex, getOrientation *)

JBool(b) == [t |-> "bool", v |-> b]

\* the item pushed for a matched key: [key, weight], or [[key, ..., key], weight]
\* with one copy of the key per occurrence when it occurs more than once
Item011(key, reps, weight) ==
    IF reps > 1 THEN <<JArr([i \in 1..reps |-> key]), weight>>
    ELSE <<JStr(key), weight>>

RECURSIVE MatchCategory011(_, _, _, _)
MatchCategory011(data, arr, i, match) ==
    IF i > Len(data) THEN match
    ELSE LET key == data[i][1]
         IN  MatchCategory011(data, arr, i + 1,
                IF indexOf(arr, key) > -1
                THEN Append(match, Item011(key, Len(indexesOf(arr, key)),
                                           data[i][2]))
                ELSE match)

\* matches[cat] is assigned inside the loop over the keys of the category
getMatches011(arr) ==
    [c \in {x \in CatSet : Len(Lexicon[x]) > 0} |->
        MatchCategory011(Lexicon[c], arr, 1, <<>>)]

\* counts.push(Array.isArray(obj[key][0]) ? obj[key][0].length : 1)
ItemCount011(item) == IF item[1].t = "arr" THEN Len(item[1].v) ELSE 1

RECURSIVE CalcLexLoop011(_, _, _, _, _)
CalcLexLoop011(obj, i, lexv, wc, encArg) ==
    IF i > Len(obj) THEN lexv
    ELSE CalcLexLoop011(obj, i + 1,
            IF encArg = JStr("frequency")
            THEN NumAdd(lexv, NumMul(NumDiv(Int2Num(ItemCount011(obj[i])), wc),
                                     Int2Num(obj[i][2])))
            ELSE NumAdd(lexv, Int2Num(obj[i][2])),
            wc, encArg)

\* calcLex of v0.1.1: obj is the item list of one category
calcLex011(obj, wc, int, encArg) ==
    NumAdd(CalcLexLoop011(obj, 1, Zero, wc, encArg), int)

\* calcLex of v0.0.1: no encoding, every item is scaled by count / wc
calcLex001(obj, wc, int) ==
    NumAdd(CalcLexLoop011(obj, 1, Zero, wc, JStr("frequency")), int)

OriName011(indexOfMaxValue) ==
    IF indexOfMaxValue = 0 THEN "past"
    ELSE IF indexOfMaxValue = 1 THEN "present"
    ELSE IF indexOfMaxValue = 2 THEN "future"
    ELSE "undefined"

NoAssociation == "No temporal orientation association detected."

\* more honoured only when a category is named: the sentinel stays bare
getOrientation011BareSentinel(obj, more) ==
    LET idx == IndexOfMaxValue(obj)
        top == <<obj.PAST, obj.PRESENT, obj.FUTURE>>[idx + 1]
        ori == OriName011(idx)
    IN  IF NumNeg(top)
        THEN [text |-> NoAssociation, ori |-> "", score |-> JNull]
        ELSE IF more
             THEN [text |-> "", ori |-> ori, score |-> JNum(top)]
             ELSE [text |-> "", ori |-> ori, score |-> JNull]

\* getOrientation(obj, more) of v0.1.1 and v0.0.1; the returned string is kept
\* as its parts: the text, and the category and score a template inserts
getOrientation011(obj, more) ==
    LET idx == IndexOfMaxValue(obj)
        top == <<obj.PAST, obj.PRESENT, obj.FUTURE>>[idx + 1]
        ori == OriName011(idx)
    IN  IF NumNeg(top)
        THEN IF more
             THEN [text |-> NoAssociation, ori |-> ori, score |-> JNum(top)]
             ELSE [text |-> NoAssociation, ori |-> "", score |-> JNull]
        ELSE IF more
             THEN [text |-> "", ori |-> ori, score |-> JNum(top)]
             ELSE [text |-> "", ori |-> ori, score |-> JNull]

-----------------------------------------------------------------------------
(* prospectimo (v0.1.1) *)

Obj011(ret, more, encoding) ==
    [t |-> "obj", return |-> ret, more |-> more, encoding |-> encoding]

Falsy011(x) == IF x.t = "bool" THEN ~x.v ELSE Falsy(x)

Defaults011(optsArg) ==
    LET o == IF IsNullish(optsArg)
             THEN Obj011(JStr("orientation"), JBool(FALSE), JStr("binary"))
             ELSE optsArg
    IN  Obj011(OrElse(o.return, JStr("orientation")),
               IF Falsy011(o.more) THEN JBool(FALSE) ELSE o.more,
               OrElse(o.encoding, JStr("binary")))

ZeroLex == [c \in CatSet |-> Zero]

\* the guard written 'tokens === undefined': null passes
NoTokens011UndefinedOnly(toks) == toks = JUndef

\* if (tokens == null) the lexical values are all 0
NoTokens011(toks) == IsNullish(toks)

\* for (key in obj) over matches.PAST etc.: no iteration for a missing key
Lookup011(m, c) == IF c \in DOMAIN m THEN m[c] ELSE <<>>

prospectimo011(strArg, optsArg, emptyAsNull) ==
    IF IsNullish(strArg) THEN Early(optsArg, None, None, ReturnsNull)
    ELSE
        LET o == Defaults011(optsArg)
            toks == tokenizer(strArg.v, emptyAsNull)
        IN  IF NoTokens011(toks)
            THEN Early(o, toks, None, [kind |-> "lex", v |-> ZeroLex])
            \* getMatches reads arr.indexOf of the token array
            ELSE IF toks.t # "arr"
            THEN Early(o, toks, None, Throws("TypeError"))
            ELSE
            LET m == getMatches011(toks.v)
                wc == Int2Num(Len(toks.v))
                lx == [c \in CatSet |->
                         calcLex011(Lookup011(m, c), wc, Intercept(c),
                                    o.encoding)]
            IN  [opts |-> o, tokens |-> toks, threshold |-> None,
                 matches |-> m, wordcount |-> JNum(wc), enc |-> o.encoding,
                 lex |-> lx,
                 result |-> IF o.return = JStr("lex")
                            THEN [kind |-> "lex", v |-> lx]
                            ELSE [kind |-> "string",
                                  v |-> getOrientation011(lx, o.more.v)]]

-----------------------------------------------------------------------------
(* prospectimo (v0.0.1) *)

Obj001(ret, more) == [t |-> "obj", return |-> ret, more |-> more]

Defaults001(optsArg) ==
    LET o == IF IsNullish(optsArg)
             THEN Obj001(JStr("orientation"), JBool(FALSE))
             ELSE optsArg
    IN  Obj001(OrElse(o.return, JStr("orientation")),
               IF Falsy011(o.more) THEN JBool(FALSE) ELSE o.more)

\* if (str == null) throw new Error('Whoops! No input string found!')
NoInput001(strArg) == IsNullish(strArg)

prospectimo001(strArg, optsArg, emptyAsNull) ==
    IF NoInput001(strArg) THEN Early(optsArg, None, None, Throws("Error"))
    ELSE
        LET o == Defaults001(optsArg)
            toks == tokenizer(strArg.v, emptyAsNull)
        IN  \* getValues: getMatches reads arr.indexOf of the token array
            IF toks.t # "arr"
            THEN Early(o, toks, None, Throws("TypeError"))
            ELSE
            LET m == getMatches011(toks.v)
                wc == Int2Num(Len(toks.v))
                lx == [c \in CatSet |->
                         calcLex001(Lookup011(m, c), wc, Intercept(c))]
            IN  [opts |-> o, tokens |-> toks, threshold |-> None,
                 matches |-> m, wordcount |-> JNum(wc), enc |-> None,
                 lex |-> lx,
                 result |-> IF o.return = JStr("lex")
                            THEN [kind |-> "lex", v |-> lx]
                            ELSE [kind |-> "string",
                                  v |-> getOrientation011(lx, o.more.v)]]

-----------------------------------------------------------------------------
(* prospectimo (v2.0.0) *)

Obj200(output, nGrams, wcGrams) ==
    [t |-> "obj", encoding |-> JUndef, max |-> JUndef, min |-> JUndef,
     nGrams |-> nGrams, output |-> output, places |-> JUndef,
     sortBy |-> JUndef, wcGrams |-> wcGrams]

Defaults200(optsArg) ==
    LET o == IF IsNullish(optsArg) \/ optsArg.t # "obj"
             THEN [t |-> "obj", encoding |-> JStr("binary"),
                   max |-> JNum(PInf), min |-> JNum(NInf),
                   nGrams |-> JStr("true"), output |-> JStr("orientation"),
                   places |-> JNum(Int2Num(9)), sortBy |-> JStr("freq"),
                   wcGrams |-> JStr("false")]
             ELSE optsArg
    IN  [t |-> "obj",
         encoding |-> OrElse(o.encoding, JStr("binary")),
         max |-> OrElse(o.max, JNum(PInf)),
         min |-> OrElse(o.min, JNum(NInf)),
         nGrams |-> OrElse(o.nGrams, JStr("true")),
         output |-> OrElse(o.output, JStr("orientation")),
         places |-> OrElse(o.places, JNum(Int2Num(9))),
         sortBy |-> OrElse(o.sortBy, JStr("freq")),
         wcGrams |-> OrElse(o.wcGrams, JStr("false"))]

\* String.prototype.toLowerCase of the option strings in use
ToLowerCase(s) ==
    CASE s = "TRUE" -> "true"
      [] s = "True" -> "true"
      [] OTHER -> s

\* the output dispatch: doMatches and doValues are not defined in the file
\* (the scoring function is named doLex), so the first branch taken raises
\* a ReferenceError
Dispatch200(output) ==
    LET undefinedName(name) ==
            [kind |-> "throw", v |-> "ReferenceError: " \o name]
    IN  IF output = JStr("matches") THEN undefinedName("doMatches")
        ELSE IF output = JStr("full") THEN undefinedName("doMatches")
        ELSE IF output = JStr("lex") THEN undefinedName("doValues")
        ELSE undefinedName("doValues")

\* the guard written 'str == null': the empty string passes
NoInput200NullOnly(strArg) == IsNullish(strArg)

\* if (!str): null, undefined and the empty string
NoInput200(strArg) == IsNullish(strArg) \/ strArg = JStr(<<>>)

\* if (!tokens): an empty array is truthy
NoTokens200(toks) == IsNullish(toks)

\* the word count taken after the n-grams were appended, whatever wcGrams
Wordcount200AfterNGrams(toks0, toks, wcGrams) == Len(toks)

\* wordcount = tokens.length before the n-grams; recalculated when wcGrams
\* is 'true'
Wordcount200(toks0, toks, wcGrams) ==
    IF ToLowerCase(wcGrams) = "true" THEN Len(toks) ELSE Len(toks0)

\* the matcher of lex-helpers runs before the dispatch; its result is read
\* only by the functions the dispatch fails to find
prospectimo200(strArg, optsArg, emptyAsNull) ==
    IF NoInput200(strArg) THEN Early(optsArg, None, None, ReturnsNull)
    \* str.toString() of a value without properties
    ELSE IF strArg.t # "str"
    THEN Early(optsArg, None, None, Throws("TypeError"))
    ELSE
        LET o == Defaults200(optsArg)
            toks0 == tokenizer(strArg.v, emptyAsNull)
        IN  IF NoTokens200(toks0) THEN Early(o, toks0, None, ReturnsNull)
            \* opts.nGrams.toLowerCase of a value that is no string
            ELSE IF o.nGrams.t # "str"
            THEN Early(o, toks0, JNum(Int2Num(Len(toks0.v))),
                       Throws("TypeError"))
            ELSE
            LET toks == IF ToLowerCase(o.nGrams.v) = "true"
                        THEN JArr(WithNGrams(toks0.v, strArg.v))
                        ELSE toks0
            IN  \* opts.wcGrams.toLowerCase of a value that is no string
                IF o.wcGrams.t # "str"
                THEN Early(o, toks, JNum(Int2Num(Len(toks0.v))),
                           Throws("TypeError"))
                ELSE
                LET wc == Wordcount200(toks0.v, toks.v, o.wcGrams.v)
                IN  Early(o, toks, JNum(Int2Num(wc)), Dispatch200(o.output))

-----------------------------------------------------------------------------
(* prospectimo (v0.3.0 and v0.2.0): the bigrams and trigrams flags *)

\* if (opts.bigrams), if (opts.trigrams)
Truthy(x) == ~Falsy011(x)

Obj030(ret, encoding, thr, bigrams, trigrams) ==
    [t |-> "obj", return |-> ret, encoding |-> encoding, threshold |-> thr,
     bigrams |-> bigrams, trigrams |-> trigrams]

\* the literal sets both flags; a given object keeps the flags it has
Defaults030(optsArg) ==
    LET o == IF IsNullish(optsArg)
             THEN Obj030(JStr("lex"), JStr("binary"),
                         JNum(Int2Num(DefaultThreshold)),
                         JBool(TRUE), JBool(TRUE))
             ELSE optsArg
    IN  Obj030(OrElse(o.return, JStr("lex")),
               OrElse(o.encoding, JStr("binary")),
               OrElse(o.threshold, JNum(Int2Num(DefaultThreshold))),
               o.bigrams, o.trigrams)

\* the n-grams of the flags that are set, appended to the tokens
WithFlaggedNGrams(toks, chunks, bigrams, trigrams) ==
    toks \o (IF Truthy(bigrams) THEN getNGrams(chunks, JNum(Int2Num(2)))
                                ELSE <<>>)
         \o (IF Truthy(trigrams) THEN getNGrams(chunks, JNum(Int2Num(3)))
                                 ELSE <<>>)

prospectimo030(strArg, optsArg, emptyAsNull) ==
    IF IsNullish(strArg) THEN Early(optsArg, None, None, ReturnsNull)
    ELSE
        LET o == Defaults030(optsArg)
            toks0 == tokenizer(strArg.v, emptyAsNull)
        IN  IF IsNullish(toks0) THEN Early(o, toks0, None, ReturnsNull)
            ELSE
            LET wc == JNum(Int2Num(Len(toks0.v)))
                toks == JArr(WithFlaggedNGrams(toks0.v, strArg.v, o.bigrams,
                                               o.trigrams))
                m == getMatches040(toks, o.threshold)
                lx == [c \in CatSet |->
                         calcLex040(Lookup040(m, c), wc, JNum(Intercept(c)),
                                    o.encoding)]
            IN  [opts |-> o, tokens |-> toks, threshold |-> o.threshold,
                 matches |-> m, wordcount |-> wc, enc |-> o.encoding,
                 lex |-> lx,
                 result |-> IF o.return = JStr("lex")
                            THEN [kind |-> "lex", v |-> lx]
                            ELSE [kind |-> "string",
                                  v |-> getOrientation040(lx)]]

\* getBigrams, getTrigrams (v0.2.0): natural's n-grams joined by a space
getBigrams(chunks) ==
    LET bigrams == naturalNGrams(chunks, 2)
    IN  [i \in 1..Len(bigrams) |-> Join(bigrams[i])]

getTrigrams(chunks) ==
    LET trigrams == naturalNGrams(chunks, 3)
    IN  [i \in 1..Len(trigrams) |-> Join(trigrams[i])]

Obj020(ret, encoding, bigrams, trigrams) ==
    [t |-> "obj", return |-> ret, encoding |-> encoding,
     bigrams |-> bigrams, trigrams |-> trigrams]

Defaults020(optsArg) ==
    LET o == IF IsNullish(optsArg)
             THEN Obj020(JStr("lex"), JStr("binary"), JBool(TRUE), JBool(TRUE))
             ELSE optsArg
    IN  Obj020(OrElse(o.return, JStr("lex")),
               OrElse(o.encoding, JStr("binary")),
               o.bigrams, o.trigrams)

\* getOrientation(obj) of v0.2.0: the text of v0.1.1 without more
getOrientation020(obj) == getOrientation011(obj, FALSE)

prospectimo020(strArg, optsArg, emptyAsNull) ==
    IF IsNullish(strArg) THEN Early(optsArg, None, None, ReturnsNull)
    ELSE
        LET o == Defaults020(optsArg)
            toks0 == tokenizer(strArg.v, emptyAsNull)
        IN  IF IsNullish(toks0)
            THEN Early(o, toks0, None, [kind |-> "lex", v |-> ZeroLex])
            ELSE
            LET wc == Int2Num(Len(toks0.v))
                toks == toks0.v
                          \o (IF Truthy(o.bigrams) THEN getBigrams(strArg.v)
                                                   ELSE <<>>)
                          \o (IF Truthy(o.trigrams) THEN getTrigrams(strArg.v)
                                                    ELSE <<>>)
                m == getMatches011(toks)
                lx == [c \in CatSet |->
                         calcLex011(Lookup011(m, c), wc, Intercept(c),
                                    o.encoding)]
            IN  [opts |-> o, tokens |-> JArr(toks), threshold |-> None,
                 matches |-> m, wordcount |-> JNum(wc), enc |-> o.encoding,
                 lex |-> lx,
                 result |-> IF o.return = JStr("lex")
                            THEN [kind |-> "lex", v |-> lx]
                            ELSE [kind |-> "string",
                                  v |-> getOrientation020(lx)]]

-----------------------------------------------------------------------------
(* doLex (v2.0.0) *)

\* calcLex of lex-helpers, called as (obj, int, places, encoding, wordcount);
\* the rounding to places decimals is left out
lexHelpersCalcLex(obj, int, places, encoding, wc) ==
    calcLex040(obj, wc, int, encoding)

\* the intercept read by the position of the callback in the run, not by
\* its category
DoLexStepByPosition(values, cat, m, places, encoding, wc) ==
    LET int == Intercept(Categories[Cardinality(DOMAIN values) + 1])
        val == lexHelpersCalcLex(JArr(m[cat]), JNum(int), places, encoding,
                                 wc)
    IN  [c \in DOMAIN values \cup {cat} |->
            IF c = cat THEN val ELSE values[c]]

\* one callback of async.each: values[cat] = calcLex(matches[cat], ints[cat],
\* places, encoding, wordcount)
DoLexStep(values, cat, m, places, encoding, wc) ==
    LET val == lexHelpersCalcLex(JArr(m[cat]), JNum(Intercept(cat)), places,
                                 encoding, wc)
    IN  [c \in DOMAIN values \cup {cat} |->
            IF c = cat THEN val ELSE values[c]]

\* const values = {}
NoValues == [c \in {} |-> Zero]

-----------------------------------------------------------------------------
(* Input sets of the calls *)

StrInputs == {JNull, JUndef} \cup {JStr(cs) : cs \in ChunkSeqs}

\* "scores" is no output the code knows
Returns == {JUndef, JStr("lex"), JStr("orientation"), JStr("scores")}
Encodings == {JUndef, JStr("binary"), JStr("frequency")}
\* "abc" is a threshold Number() turns into NaN
Thresholds ==
    {JUndef, JNum(Int2Num(0)), JNum(Int2Num(300)), JNum(Int2Num(MaxWeight)),
     JStr("abc")}

OptsInputs040 ==
    {JUndef} \cup {Obj040(r, e, t) : r \in Returns, e \in Encodings,
                                     t \in Thresholds}

\* the tokenizer's answer for a string without tokens matters only there
EmptyAnswers(strArg) ==
    IF strArg.t = "str" /\ SelectSeq(strArg.v, IsWordChunk) = <<>>
    THEN BOOLEAN ELSE {FALSE}

\* unit inputs of getOrientation
ScoreVals == {Int2Num(i) : i \in (-MaxScore)..MaxScore}

\* unit inputs of getMatches
TokenAlphabet == {"was", "is", "will", "the", "was is", "! !"}
TokenArrays == SeqsUpTo(TokenAlphabet, MaxLen)
UnitThresholds ==
    {JUndef, JNull, JStr("abc")} \cup
    {JNum(Int2Num(i)) : i \in {MinWeight - 3, MinWeight, 0, 300, MaxWeight,
                               MaxWeight + 2}}

Mores == {JUndef, JBool(TRUE), JBool(FALSE)}

OptsInputs011 ==
    {JUndef} \cup {Obj011(r, m, e) : r \in Returns, m \in Mores,
                                     e \in Encodings}

OptsInputs001 == {JUndef} \cup {Obj001(r, m) : r \in Returns, m \in Mores}

Outputs200 ==
    {JUndef, JStr("lex"), JStr("orientation"), JStr("matches"), JStr("full"),
     JStr("scores")}
NGrams200 ==
    {JUndef, JStr("true"), JStr("false"), JArr(<<2, 3>>), JArr(<<3>>)}
WcGrams200 == {JUndef, JStr("true"), JStr("false")}

OptsInputs200 ==
    {JUndef} \cup {Obj200(o, n, w) : o \in Outputs200, n \in NGrams200,
                                     w \in WcGrams200}

\* the options of v0.3.0 and v0.2.0 that reach the n-gram flags
Flags == {JUndef, JBool(TRUE), JBool(FALSE)}

OptsInputs030 ==
    {JUndef} \cup {Obj030(r, JUndef, JUndef, b, g) :
                       r \in {JUndef, JStr("orientation")},
                       b \in Flags, g \in Flags}

OptsInputs020 ==
    {JUndef} \cup {Obj020(r, JUndef, b, g) :
                       r \in {JUndef, JStr("orientation")},
                       b \in Flags, g \in Flags}

\* unit inputs of the option defaults: objects that supply numbers
SuppliedNumbers == {JUndef, JNum(Zero), JNum(Int2Num(1))}

NumericOpts200 ==
    {[Obj200(JUndef, JUndef, JUndef) EXCEPT !.min = a, !.max = b,
                                            !.places = c] :
        a \in SuppliedNumbers, b \in SuppliedNumbers, c \in SuppliedNumbers}

NumericOpts040 ==
    {Obj040(JUndef, JUndef, t) : t \in SuppliedNumbers \cup Thresholds}

\* unit inputs of getNGrams
Arities == {JUndef, JNull, JNum(Int2Num(2)), JNum(Int2Num(3))}

\* unit inputs of calcLex
UnitForms == {<<"was", 1158>>, <<"will", -400>>, <<"the", 0>>}
UnitEntries == {<<f[1], c, f[2]>> : f \in UnitForms, c \in 1..MaxCount}
MatchLists == SeqsUpTo(UnitEntries, MaxMatch)
WcInputs == {JNum(Int2Num(i)) : i \in 0..MaxWc}
IntInputs == {JNum(Intercept(c)) : c \in CatSet}
ItemLists == SeqsUpTo({Item011(e[1], e[2], e[3]) : e \in UnitEntries}, MaxMatch)

-----------------------------------------------------------------------------
(* The state machine: one call at a time *)

Init ==
    /\ op = "idle"
    /\ ver = "none"
    /\ str = None
    /\ opts = None
    /\ tokens = None
    /\ threshold = None
    /\ matches = None
    /\ wordcount = None
    /\ enc = None
    /\ icpt = None
    /\ lex = None
    /\ result = None

\* getOrientation(obj) of v2.0.0 or v0.4.0
GetOrientationCall ==
    /\ op = "idle"
    /\ \E v \in {"2.0.0", "0.4.0"}, a \in ScoreVals, b \in ScoreVals,
          c \in ScoreVals :
          /\ ver' = v
          /\ lex' = [PAST |-> a, PRESENT |-> b, FUTURE |-> c]
          /\ result' = [kind |-> "string", v |-> getOrientation(v, lex')]
    /\ op' = "getOrientation"
    /\ UNCHANGED <<str, opts, tokens, threshold, matches, wordcount, enc,
                   icpt>>

\* getOrientation(obj, more) of v0.1.1; opts holds the argument more
GetOrientation011Call ==
    /\ op = "idle"
    /\ \E a \in ScoreVals, b \in ScoreVals, c \in ScoreVals, more \in Mores :
          /\ lex' = [PAST |-> a, PRESENT |-> b, FUTURE |-> c]
          /\ opts' = more
          /\ result' = [kind |-> "string",
                        v |-> getOrientation011(lex', Truthy(more))]
    /\ op' = "getOrientationMore"
    /\ ver' = "0.1.1"
    /\ UNCHANGED <<str, tokens, threshold, matches, wordcount, enc, icpt>>

\* getMatches(arr, threshold) of v0.4.0
GetMatchesCall ==
    /\ op = "idle"
    /\ \E arr \in TokenArrays, thr \in UnitThresholds :
          /\ tokens' = JArr(arr)
          /\ threshold' = thr
          /\ matches' = getMatches040(JArr(arr), thr)
    /\ op' = "getMatches"
    /\ ver' = "0.4.0"
    /\ UNCHANGED <<str, opts, wordcount, enc, icpt, lex, result>>

\* calcLex(obj, wc, int, enc) of v0.4.0
CalcLexCall ==
    /\ op = "idle"
    /\ \E obj \in MatchLists, wc \in WcInputs, int \in IntInputs,
          e \in Encodings :
          /\ matches' = JArr(obj)
          /\ wordcount' = wc
          /\ icpt' = int
          /\ enc' = e
          /\ result' = [kind |-> "num", v |-> calcLex040(JArr(obj), wc, int, e)]
    /\ op' = "calcLex"
    /\ ver' = "0.4.0"
    /\ UNCHANGED <<str, opts, tokens, threshold, lex>>

\* getMatches(arr) of v0.1.1
GetMatches011Call ==
    /\ op = "idle"
    /\ \E arr \in TokenArrays :
          /\ tokens' = JArr(arr)
          /\ matches' = getMatches011(arr)
    /\ op' = "getMatches"
    /\ ver' = "0.1.1"
    /\ UNCHANGED <<str, opts, threshold, wordcount, enc, icpt, lex, result>>

\* calcLex(obj, wc, int, enc) of v0.1.1
CalcLex011Call ==
    /\ op = "idle"
    /\ \E obj \in ItemLists, wc \in WcInputs, int \in IntInputs,
          e \in Encodings :
          /\ matches' = JArr(obj)
          /\ wordcount' = wc
          /\ icpt' = int
          /\ enc' = e
          /\ result' = [kind |-> "num", v |-> calcLex011(obj, wc.v, int.v, e)]
    /\ op' = "calcLex"
    /\ ver' = "0.1.1"
    /\ UNCHANGED <<str, opts, tokens, threshold, lex>>

\* calcLex(obj, wc, int) of v0.0.1
CalcLex001Call ==
    /\ op = "idle"
    /\ \E obj \in ItemLists, wc \in WcInputs, int \in IntInputs :
          /\ matches' = JArr(obj)
          /\ wordcount' = wc
          /\ icpt' = int
          /\ result' = [kind |-> "num", v |-> calcLex001(obj, wc.v, int.v)]
    /\ op' = "calcLex"
    /\ ver' = "0.0.1"
    /\ UNCHANGED <<str, opts, tokens, threshold, enc, lex>>

\* getNGrams(str, n) of v0.3.0; opts holds the argument n
GetNGramsCall ==
    /\ op = "idle"
    /\ \E cs \in ChunkSeqs, n \in Arities :
          /\ str' = JStr(cs)
          /\ opts' = n
          /\ result' = [kind |-> "arr", v |-> getNGrams(cs, n)]
    /\ op' = "getNGrams"
    /\ ver' = "0.3.0"
    /\ UNCHANGED <<tokens, threshold, matches, wordcount, enc, icpt, lex>>

\* doLex(matches, places, encoding, wordcount) of v2.0.0 is entered: values
\* is empty and async.each is about to run a callback for every key
DoLexCall ==
    /\ op = "idle"
    /\ \E arr \in TokenArrays, wc \in WcInputs,
          e \in {JStr("binary"), JStr("frequency")} :
          /\ matches' = getMatches040(JArr(arr), JUndef)
          /\ wordcount' = wc
          /\ enc' = e
    /\ lex' = NoValues
    /\ op' = "doLex"
    /\ ver' = "2.0.0"
    /\ UNCHANGED <<str, opts, tokens, threshold, icpt, result>>

\* async.each runs the callback of a key it has not run yet; the callbacks
\* are synchronous, and each runs once before async.each returns
DoLexCallback ==
    /\ op = "doLex"
    /\ \E cat \in DOMAIN matches \ DOMAIN lex :
          lex' = DoLexStep(lex, cat, matches, JNum(Int2Num(9)), enc, wordcount)
    /\ UNCHANGED <<op, ver, str, opts, tokens, threshold, matches, wordcount,
                   enc, icpt, result>>

\* return values
DoLexReturn ==
    /\ op = "doLex"
    /\ DOMAIN lex = DOMAIN matches
    /\ result' = [kind |-> "lex", v |-> lex]
    /\ op' = "doLexReturned"
    /\ UNCHANGED <<ver, str, opts, tokens, threshold, matches, wordcount, enc,
                   icpt, lex>>

\* the option defaults of prospectimo (v0.4.0, v2.0.0) applied to the
\* caller's object: opts holds the object as passed, result the options the
\* rest of the call reads (getMatches gets opts.threshold, or opts.min and
\* opts.max)
DefaultsCall ==
    /\ op = "idle"
    /\ \/ \E o \in NumericOpts040 :
             /\ opts' = o
             /\ result' = [kind |-> "opts", v |-> Defaults040(o)]
             /\ ver' = "0.4.0"
       \/ \E o \in NumericOpts200 :
             /\ opts' = o
             /\ result' = [kind |-> "opts", v |-> Defaults200(o)]
             /\ ver' = "2.0.0"
    /\ op' = "defaults"
    /\ UNCHANGED <<str, tokens, threshold, matches, wordcount, enc, icpt,
                   lex>>

\* prospectimo(str, opts) as the release v defines it
prospectimo(v, strArg, optsArg, emptyAsNull) ==
    CASE v = "2.0.0" -> prospectimo200(strArg, optsArg, emptyAsNull)
      [] v = "0.4.0" -> prospectimo040(strArg, optsArg, emptyAsNull)
      [] v = "0.1.1" -> prospectimo011(strArg, optsArg, emptyAsNull)
      [] v = "0.0.1" -> prospectimo001(strArg, optsArg, emptyAsNull)
      [] v = "0.3.0" -> prospectimo030(strArg, optsArg, emptyAsNull)
      [] v = "0.2.0" -> prospectimo020(strArg, optsArg, emptyAsNull)

\* prospectimo(str, opts) of one version
ProspectimoCall(v, optsInputs) ==
    /\ op = "idle"
    /\ \E s \in StrInputs, o \in optsInputs :
       \E ea \in EmptyAnswers(s) :
          LET r == prospectimo(v, s, o, ea)
          IN  /\ str' = s
              \* the caller's object, with the defaults the call wrote
              \* into it; a call without one leaves the caller none
              /\ opts' = (IF IsNullish(o) THEN o ELSE r.opts)
              /\ tokens' = r.tokens
              /\ threshold' = r.threshold
              /\ matches' = r.matches
              /\ wordcount' = r.wordcount
              /\ enc' = r.enc
              /\ lex' = r.lex
              /\ result' = r.result
    /\ op' = "prospectimo"
    /\ ver' = v
    /\ UNCHANGED icpt

\* the same call once more: the same string, the caller's options object as
\* the first call left it, and a tokenizer that answers as before
ProspectimoAgainCall ==
    /\ op = "prospectimo"
    /\ ver \in {"0.4.0", "2.0.0"}
    /\ LET r == prospectimo(ver, str, opts, tokens = JNull)
       IN  /\ opts' = (IF IsNullish(opts) THEN opts ELSE r.opts)
           /\ tokens' = r.tokens
           /\ threshold' = r.threshold
           /\ matches' = r.matches
           /\ wordcount' = r.wordcount
           /\ enc' = r.enc
           /\ lex' = r.lex
           /\ result' = r.result
    /\ op' = "prospectimoAgain"
    /\ UNCHANGED <<ver, str, icpt>>

Prospectimo200Call == ProspectimoCall("2.0.0", OptsInputs200)
Prospectimo030Call == ProspectimoCall("0.3.0", OptsInputs030)
Prospectimo020Call == ProspectimoCall("0.2.0", OptsInputs020)
Prospectimo040Call == ProspectimoCall("0.4.0", OptsInputs040)
Prospectimo011Call == ProspectimoCall("0.1.1", OptsInputs011)
Prospectimo001Call == ProspectimoCall("0.0.1", OptsInputs001)

\* the call has returned; the next one starts from scratch
Return ==
    /\ op \notin {"idle", "doLex"}
    /\ op' = "idle"
    /\ ver' = "none"
    /\ str' = None
    /\ opts' = None
    /\ tokens' = None
    /\ threshold' = None
    /\ matches' = None
    /\ wordcount' = None
    /\ enc' = None
    /\ icpt' = None
    /\ lex' = None
    /\ result' = None

Next ==
    \/ GetOrientationCall
    \/ GetOrientation011Call
    \/ GetMatchesCall
    \/ CalcLexCall
    \/ GetMatches011Call
    \/ CalcLex011Call
    \/ CalcLex001Call
    \/ GetNGramsCall
    \/ DefaultsCall
    \/ DoLexCall
    \/ DoLexCallback
    \/ DoLexReturn
    \/ Prospectimo001Call
    \/ Prospectimo011Call
    \/ Prospectimo040Call
    \/ Prospectimo200Call
    \/ Prospectimo030Call
    \/ Prospectimo020Call
    \/ ProspectimoAgainCall
    \/ Return

Spec == Init /\ [][Next]_vars

-----------------------------------------------------------------------------
(* Vocabulary of the properties *)

Scores(l) == <<l.PAST, l.PRESENT, l.FUTURE>>
CategoryNames == <<"Past", "Present", "Future">>
Sentinels == {"Unknown", "No temporal orientation detected."}

\* the state records getOrientation of src/index.js applied to lex
OrientationApplied ==
    \/ op = "getOrientation"
    \/ op = "prospectimo" /\ ver = "0.4.0" /\ result.kind = "string"

\* the state records calcLex of the given version applied to a match list
CalcLexUnit(v) == op = "calcLex" /\ ver = v

\* the state records a prospectimo call of version v that scored its matches
Scored(v) == op = "prospectimo" /\ ver = v /\ lex # None

\* the state records getMatches of v0.4.0 applied to tokens
Matched040 ==
    /\ ver = "0.4.0"
    /\ \/ op = "getMatches"
       \/ op = "prospectimo" /\ matches # None

\* the sum of a sequence of integers
RECURSIVE SumSeq(_)
SumSeq(q) == IF q = <<>> THEN 0 ELSE Head(q) + SumSeq(Tail(q))

\* the sum of f over the indexes of a sequence
SumOver(q, f(_)) == SumSeq([i \in 1..Len(q) |-> f(q[i])])

\* number of positions of arr equal to form
Occurrences(arr, form) == Cardinality({p \in 1..Len(arr) : arr[p] = form})

\* the threshold given is a number
NumericThreshold == ~IsNullish(threshold) /\ threshold.t = "num"

\* the threshold getMatches compares with
EffectiveThreshold ==
    IF IsNullish(threshold) THEN Int2Num(DefaultThreshold) ELSE threshold.v

-----------------------------------------------------------------------------
(* C1: getOrientation selects a category whose score is the maximum of the  *)
(* three, and among categories sharing the maximum the earliest of PAST,    *)
(* PRESENT, FUTURE.                                                         *)

C1_ArgMaxFirstWins ==
    OrientationApplied =>
        \E i \in 1..3 :
            /\ result.v = CategoryNames[i]
            /\ \A j \in 1..3 : ~NumGt(Scores(lex)[j], Scores(lex)[i])
            /\ \A j \in 1..(i - 1) : NumGt(Scores(lex)[i], Scores(lex)[j])

\* PRESENT and FUTURE share the maximum and PRESENT is selected
C1_Witness ==
    /\ op = "getOrientation"
    /\ lex.PRESENT = lex.FUTURE
    /\ NumGt(lex.PRESENT, lex.PAST)
    /\ result.v = "Present"

-----------------------------------------------------------------------------
(* C2: whenever the greatest of the three scores is negative, the           *)
(* orientation output is the no-orientation sentinel and never a category   *)
(* name.                                                                    *)

C2_NegativeMaxGivesSentinel ==
    (OrientationApplied /\ \A j \in 1..3 : NumNeg(Scores(lex)[j]))
        => result.v \in Sentinels

-----------------------------------------------------------------------------
(* C3: with enc 'binary' or absent, calcLex returns the intercept plus the  *)
(* weight of every entry of the match list, each once whatever its count.   *)

BinaryEnc == enc = JStr("binary") \/ IsNullish(enc)

C3_BinarySumsWeightsOnce ==
    /\ (CalcLexUnit("0.4.0") /\ BinaryEnc) =>
          LET obj == matches.v
          IN  result.v = NumAdd(icpt.v,
                  Int2Num(SumOver(obj, LAMBDA e : e[3])))
    /\ (CalcLexUnit("0.1.1") /\ BinaryEnc) =>
          LET obj == matches.v
          IN  result.v = NumAdd(icpt.v,
                  Int2Num(SumOver(obj, LAMBDA e : e[2])))
    /\ (Scored("0.4.0") /\ BinaryEnc) =>
          \A c \in CatSet :
              lex[c] = NumAdd(Intercept(c),
                  Int2Num(SumOver(matches[c], LAMBDA e : e[3])))

\* a form counted twice adds its weight once
C3_Witness ==
    /\ CalcLexUnit("0.4.0")
    /\ enc = JStr("binary")
    /\ matches.v = << <<"was", 2, 1158>> >>
    /\ result.v = NumAdd(icpt.v, Int2Num(1158))

-----------------------------------------------------------------------------
(* C4: with enc 'frequency' and a word count wc >= 1, calcLex returns the   *)
(* intercept plus the sum of (count / wc) * weight over the match list; a   *)
(* single-token input matching one entry of weight w in one category scores *)
(* that category's intercept + w and the bare intercept for the others.     *)

FrequencyEnc == enc = JStr("frequency")

C4_FrequencyFormula ==
    /\ (CalcLexUnit("0.4.0") /\ FrequencyEnc /\ wordcount.v.n >= 1) =>
          LET obj == matches.v
              wc == wordcount.v.n
          IN  result.v =
                Fin(icpt.v.n * wc
                      + SumOver(obj, LAMBDA e : e[2] * e[3]),
                    wc)
    /\ (Scored("0.4.0") /\ FrequencyEnc /\ wordcount.v.n >= 1) =>
          \A c \in CatSet :
              lex[c] = Fin(IntOf(c) * wordcount.v.n
                             + SumOver(matches[c], LAMBDA e : e[2] * e[3]),
                           wordcount.v.n)
    /\ (Scored("0.4.0") /\ FrequencyEnc /\ wordcount = JNum(Int2Num(1))) =>
          \A c \in CatSet :
              /\ (Len(matches[c]) = 1 /\ matches[c][1][2] = 1) =>
                    lex[c] = Int2Num(IntOf(c) + matches[c][1][3])
              /\ Len(matches[c]) = 0 => lex[c] = Intercept(c)

\* two entries, one of them counted twice, over a word count of 2
C4_Witness ==
    /\ CalcLexUnit("0.4.0")
    /\ FrequencyEnc
    /\ wordcount = JNum(Int2Num(2))
    /\ matches.v = << <<"was", 2, 1158>>, <<"will", 1, -400>> >>
    /\ result.v = NumAdd(icpt.v, Int2Num(958))

-----------------------------------------------------------------------------
(* C5: the scorer never divides by a word count of 0: with a word count of  *)
(* 0 the score of a category is its intercept alone.  Stated for the        *)
(* frequency formula, where the word count is the divisor.                  *)

C5_ZeroWordcountGuarded ==
    /\ ((CalcLexUnit("0.4.0") /\ FrequencyEnc) \/ CalcLexUnit("0.0.1"))
       /\ wordcount = JNum(Zero)
          => result.v = icpt.v
    /\ (Scored("0.4.0") /\ FrequencyEnc /\ wordcount = JNum(Zero))
          => \A c \in CatSet : lex[c] = Intercept(c)

-----------------------------------------------------------------------------
(* C6: for every category, getMatches returns exactly one entry             *)
(* [form, count, weight] for each lexicon form of the category that occurs  *)
(* in the tokens and passes the weight filter, and no other entry; count is *)
(* the number of positions holding the form.                                *)

C6_MatcherExact ==
    (Matched040 /\ (IsNullish(threshold) \/ NumericThreshold)) =>
        \A c \in CatSet :
            LET m == matches[c]
                data == Lexicon[c]
                arr == tokens.v
                wanted == {k \in 1..Len(data) :
                              /\ Occurrences(arr, data[k][1]) >= 1
                              /\ NumGt(Int2Num(data[k][2]), EffectiveThreshold)}
            IN  /\ \A i \in 1..Len(m) :
                      \E k \in wanted :
                          m[i] = <<data[k][1], Occurrences(arr, data[k][1]),
                                   data[k][2]>>
                /\ \A k \in wanted :
                      Cardinality({i \in 1..Len(m) : m[i][1] = data[k][1]}) = 1
                /\ \A i \in 1..Len(m) : m[i][2] >= 1

\* a form held twice by the tokens, and a form the filter drops
C6_Witness ==
    /\ op = "getMatches"
    /\ ver = "0.4.0"
    /\ tokens.v = <<"is", "was", "is">>
    /\ threshold = JNum(Int2Num(0))
    /\ matches.PRESENT = << <<"is", 2, 500>> >>
    /\ matches.PAST = << <<"was", 1, 1158>> >>

-----------------------------------------------------------------------------
(* C7: getMatches includes an entry only when its weight is strictly        *)
(* greater than the threshold: a threshold at or above the largest weight   *)
(* gives every category an empty list (scores are the intercepts), and a    *)
(* threshold below the smallest weight drops no form the tokens hold.       *)

C7_ThresholdStrict ==
    (Matched040 /\ NumericThreshold) =>
        /\ \A c \in CatSet : \A i \in 1..Len(matches[c]) :
              NumGt(Int2Num(matches[c][i][3]), threshold.v)
        /\ ~NumGt(Int2Num(MaxWeight), threshold.v) =>
              /\ \A c \in CatSet : matches[c] = <<>>
              /\ op = "prospectimo" => \A c \in CatSet : lex[c] = Intercept(c)
        /\ NumGt(Int2Num(MinWeight), threshold.v) =>
              \A c \in CatSet : \A k \in 1..Len(Lexicon[c]) :
                  Occurrences(tokens.v, Lexicon[c][k][1]) >= 1 =>
                      \E i \in 1..Len(matches[c]) :
                          matches[c][i][1] = Lexicon[c][k][1]

\* the threshold equals the largest weight, whose form the tokens hold
C7_Witness ==
    /\ op = "getMatches"
    /\ ver = "0.4.0"
    /\ threshold = JNum(Int2Num(MaxWeight))
    /\ \E p \in 1..Len(tokens.v) : tokens.v[p] = "was"
    /\ \A c \in CatSet : matches[c] = <<>>

-----------------------------------------------------------------------------
(* C8: every category of the lexicon is a key of the result of getMatches;  *)
(* a category without a match maps to an empty list, on which calcLex       *)
(* returns exactly the intercept.                                           *)

C8_EveryCategoryPresent ==
    /\ (op = "getMatches" \/ (op = "prospectimo" /\ matches # None)) =>
          /\ DOMAIN matches = CatSet
          /\ \A c \in CatSet :
                (\A k \in 1..Len(Lexicon[c]) :
                    Occurrences(tokens.v, Lexicon[c][k][1]) = 0)
                    => matches[c] = <<>>
    /\ (op = "prospectimo" /\ lex # None) =>
          \A c \in CatSet : matches[c] = <<>> => lex[c] = Intercept(c)

\* PAST matches and FUTURE does not
C8_Witness ==
    /\ op = "prospectimo"
    /\ ver = "0.4.0"
    /\ matches # None
    /\ matches.PAST # <<>>
    /\ matches.FUTURE = <<>>
    /\ lex.FUTURE = Intercept("FUTURE")

-----------------------------------------------------------------------------
(* C9: for a null, undefined or empty-string input prospectimo returns      *)
(* null: it does not throw and returns neither a score mapping nor an       *)
(* orientation label.                                                       *)

MissingInput == IsNullish(str) \/ str = JStr(<<>>)

-----------------------------------------------------------------------------
(* C10: when the input is not empty and the tokenizer yields nothing,       *)
(* prospectimo returns the category mapping of a text without matches (all  *)
(* zero, or the intercepts only) or the unknown orientation, and neither    *)
(* null nor an error.                                                       *)

InterceptLex == [c \in CatSet |-> Intercept(c)]

\* a non-empty input for which the tokenizer returned null
NoTokenCase ==
    /\ op = "prospectimo"
    /\ ver \in {"2.0.0", "0.4.0", "0.1.1"}
    /\ str.t = "str"
    /\ str.v # <<>>
    /\ tokens = JNull

-----------------------------------------------------------------------------
(* C11: when the output option is none of lex, orientation, matches and     *)
(* full, prospectimo (v2.0.0 and v0.4.0) does not fail and returns the      *)
(* per-category numeric scores.                                             *)

\* the call got a token array that holds a token
Tokenized ==
    /\ op = "prospectimo"
    /\ tokens # None
    /\ tokens.t = "arr"
    /\ tokens.v # <<>>

InvalidOutput ==
    /\ opts.t = "obj"
    /\ \/ ver = "0.4.0" /\ opts.return = JStr("scores")
       \/ ver = "2.0.0" /\ opts.output = JStr("scores")

C11_InvalidOutputGivesScores ==
    (Tokenized /\ InvalidOutput) => result.kind = "lex"

-----------------------------------------------------------------------------
(* C12: when no options object is given, prospectimo (v2.0.0 and v0.4.0)    *)
(* returns the object of PAST, PRESENT and FUTURE lexical values, not an    *)
(* orientation string.                                                      *)

C12_DefaultOutputIsLex ==
    (Tokenized /\ ver \in {"2.0.0", "0.4.0"} /\ IsNullish(opts)) =>
        /\ result.kind = "lex"
        /\ DOMAIN result.v = CatSet

-----------------------------------------------------------------------------
(* C13: the wordcount handed to the scoring is the number of unigram tokens *)
(* of the tokenizer when wcGrams is 'false' (the default), whether or not   *)
(* n-grams were appended, and the length of the whole token sequence        *)
(* (unigrams, bigrams, trigrams) when wcGrams is 'true'; v0.4.0, which has  *)
(* no such option, always uses the number of unigram tokens.                *)

\* the number of tokens the tokenizer returned for the input
Unigrams == Len(SelectSeq(str.v, IsWordChunk))

\* the number of phrases of n chunks the input has
Phrases(n) == IF Len(str.v) >= n THEN Len(str.v) - n + 1 ELSE 0

\* v2.0.0 got as far as its output dispatch
Dispatched200 ==
    /\ op = "prospectimo"
    /\ ver = "2.0.0"
    /\ wordcount # None
    /\ result # Throws("TypeError")

\* an option of v2.0.0 as the call reads it
Option200(name, default) ==
    IF IsNullish(opts) THEN default ELSE opts[name].v

C13_WcGramsContract ==
    /\ Dispatched200 =>
          LET withNGrams == ToLowerCase(Option200("nGrams", "true")) = "true"
              all == Unigrams
                       + (IF withNGrams THEN Phrases(2) + Phrases(3) ELSE 0)
          IN  /\ Len(tokens.v) = all
              /\ wordcount.v.n =
                    IF ToLowerCase(Option200("wcGrams", "false")) = "true"
                    THEN all ELSE Unigrams
    /\ Scored("0.4.0") =>
          /\ Len(tokens.v) = Unigrams + Phrases(2) + Phrases(3)
          /\ wordcount.v.n = Unigrams

\* three words with their two bigrams and one trigram, all counted
C13_Witness ==
    /\ Dispatched200
    /\ str.v = <<"was", "is", "will">>
    /\ opts.t = "obj"
    /\ opts.wcGrams = JStr("true")
    /\ opts.nGrams = JStr("true")
    /\ wordcount = JNum(Int2Num(6))

-----------------------------------------------------------------------------
(* C14: given an array of arities as nGrams (such as [2, 3] or [3]),        *)
(* prospectimo (v2.0.0) matches against the unigram tokens followed by the  *)
(* phrases of each requested arity, left to right, and by no phrase of an   *)
(* arity that was not requested.                                            *)

\* the phrases of the arities in turn
RECURSIVE PhrasesOf(_)
PhrasesOf(arities) ==
    IF arities = <<>> THEN <<>>
    ELSE arr2string(simplengrams(str.v, Head(arities)))
            \o PhrasesOf(Tail(arities))

C14_RequestedAritiesAppended ==
    (/\ op = "prospectimo"
     /\ ver = "2.0.0"
     /\ opts.t = "obj"
     /\ opts.nGrams.t = "arr"
     /\ tokens # None
     /\ tokens.t = "arr") =>
        /\ result.kind # "throw"
        /\ tokens.v = SelectSeq(str.v, IsWordChunk) \o PhrasesOf(opts.nGrams.v)

-----------------------------------------------------------------------------
(* C15: for an input with fewer words than an n-gram arity, that arity adds *)
(* no phrase to the token sequence and raises no error: getNGrams (v0.3.0)  *)
(* returns an empty array, and prospectimo (v0.4.0) scores an input with    *)
(* fewer than two words as its unigram tokens alone score.                  *)

UnigramTokens == SelectSeq(str.v, IsWordChunk)

\* the score of category c computed from the unigram tokens only
UnigramScore(c) ==
    calcLex040(Lookup040(getMatches040(JArr(UnigramTokens), threshold), c),
               wordcount, JNum(Intercept(c)), enc)

-----------------------------------------------------------------------------
(* C16: for every input that holds a word and every options object, also    *)
(* one with malformed values, prospectimo (v2.0.0) returns a result of one  *)
(* of its four output shapes and never throws.                              *)

OutputShapes == {"lex", "string", "matches", "full"}

C16_NothingFatal ==
    (/\ op = "prospectimo"
     /\ ver = "2.0.0"
     /\ str.t = "str"
     /\ UnigramTokens # <<>>) =>
        result.kind \in OutputShapes

-----------------------------------------------------------------------------
(* C17: a threshold that cannot be turned into a number makes getMatches    *)
(* (v0.4.0) fall back to the unbounded default, so that the match lists are *)
(* those of a call without a threshold.                                     *)

C17_NonNumericThresholdUnbounded ==
    (Matched040 /\ ~IsNullish(threshold) /\ threshold.t = "str") =>
        matches = getMatches040(tokens, JUndef)

-----------------------------------------------------------------------------
(* C18: getMatches (v0.4.0) returns the same entries with the same counts   *)
(* for every reordering of a token sequence, and calcLex with binary        *)
(* encoding therefore the same score for every category.                    *)

\* the token sequence reordered by the permutation p of its indexes
Reordered(p) == [i \in 1..Len(tokens.v) |-> tokens.v[p[i]]]

BinaryScore(m, c) ==
    calcLex040(Lookup040(m, c), JNum(Int2Num(Len(tokens.v))),
               JNum(Intercept(c)), JStr("binary"))

C18_BinaryOrderInvariant ==
    (op = "getMatches" /\ ver = "0.4.0") =>
        \A p \in Permutations(1..Len(tokens.v)) :
            LET mq == getMatches040(JArr(Reordered(p)), threshold)
            IN  /\ mq = matches
                /\ \A c \in CatSet : BinaryScore(mq, c) = BinaryScore(matches, c)

\* three tokens, two of them equal, matched in two categories
C18_Witness ==
    /\ op = "getMatches"
    /\ ver = "0.4.0"
    /\ tokens.v = <<"will", "was", "will">>
    /\ IsNullish(threshold)
    /\ matches.FUTURE = << <<"will", 2, 300>> >>
    /\ BinaryScore(matches, "PRESENT") = Int2Num(IntPRESENT - 977 - 400)

-----------------------------------------------------------------------------
(* C19: a prospectimo call (v0.4.0, v2.0.0) repeated with the same string   *)
(* and the same options object, in which the first call has written its     *)
(* defaults, returns the result of the first call and computes the same     *)
(* tokens, matches and scores; the second call writes nothing new into the  *)
(* options object.                                                          *)

C19_RepeatedCallSameResult ==
    [][ProspectimoAgainCall =>
          /\ result'.kind = result.kind
          /\ result' = result
          /\ opts' = opts
          /\ tokens' = tokens
          /\ matches' = matches
          /\ wordcount' = wordcount
          /\ lex' = lex]_vars

\* the second call, on an options object holding the defaults of the first
C19_Witness ==
    /\ op = "prospectimoAgain"
    /\ ver = "0.4.0"
    /\ str = JStr(<<"was", "is">>)
    /\ opts.t = "obj"
    /\ opts.return = JStr("lex")
    /\ opts.threshold = JNum(Int2Num(DefaultThreshold))
    /\ result.kind = "lex"
    /\ result.v.PAST = Int2Num(IntPAST + 1158 - 250 + 400)

-----------------------------------------------------------------------------
(* C20: in whatever order the per-category callbacks of doLex run, every    *)
(* value written is calcLex of that category's matches with that category's *)
(* intercept, and the object doLex returns holds one such value for every   *)
(* category key of matches, as computing the categories one after the other *)
(* does.                                                                    *)

\* the value of category c computed on its own
SequentialValue(c) ==
    calcLex040(JArr(matches[c]), wordcount, JNum(Intercept(c)), enc)

-----------------------------------------------------------------------------
(* C21: in v0.3.0 and v0.2.0, when the caller sets neither bigrams nor      *)
(* trigrams (no options object, or an object without the keys), the tokens  *)
(* matched are the unigrams followed by the bigram and the trigram phrases  *)
(* of the input.                                                            *)

FlagsNotSet ==
    \/ IsNullish(opts)
    \/ opts.t = "obj" /\ IsNullish(opts.bigrams) /\ IsNullish(opts.trigrams)

C21_NGramsOnByDefault ==
    (/\ op = "prospectimo"
     /\ ver \in {"0.3.0", "0.2.0"}
     /\ tokens # None
     /\ tokens.t = "arr"
     /\ FlagsNotSet) =>
        tokens.v = UnigramTokens \o arr2string(simplengrams(str.v, 2))
                                 \o arr2string(simplengrams(str.v, 3))

-----------------------------------------------------------------------------
(* C22: getOrientation(obj, more) of v0.1.1 and v0.0.1 names the category   *)
(* with the greatest score, the earliest of past, present, future on a tie. *)
(* Without more it returns the bare name when that score is >= 0 and the    *)
(* bare no-association sentinel when it is < 0; with more the string holds  *)
(* the name and the score as well, in both cases.                           *)

LowerNames == <<"past", "present", "future">>

\* the flag more as getOrientation received it
MoreGiven ==
    IF op = "getOrientationMore" THEN opts = JBool(TRUE)
    ELSE opts.t = "obj" /\ opts.more = JBool(TRUE)

\* the state records getOrientation(obj, more) applied to lex
Orientation011Applied ==
    \/ op = "getOrientationMore"
    \/ /\ op = "prospectimo"
       /\ ver \in {"0.1.1", "0.0.1"}
       /\ result.kind = "string"

C22_VerbosityFlag ==
    Orientation011Applied =>
        \E i \in 1..3 :
            /\ \A j \in 1..3 : ~NumGt(Scores(lex)[j], Scores(lex)[i])
            /\ \A j \in 1..(i - 1) : NumGt(Scores(lex)[i], Scores(lex)[j])
            /\ LET top == Scores(lex)[i]
                   negative == NumGt(Zero, top)
               IN  /\ result.v.text = IF negative THEN NoAssociation ELSE ""
                   /\ MoreGiven =>
                         /\ result.v.ori = LowerNames[i]
                         /\ result.v.score = JNum(top)
                   /\ ~MoreGiven =>
                         /\ result.v.ori = IF negative THEN ""
                                           ELSE LowerNames[i]
                         /\ result.v.score = JNull

\* all scores negative, present and future tied on top, more asked for
C22_Witness ==
    /\ op = "getOrientationMore"
    /\ opts = JBool(TRUE)
    /\ lex = [PAST |-> Int2Num(-2), PRESENT |-> Int2Num(-1),
              FUTURE |-> Int2Num(-1)]
    /\ result.v = [text |-> NoAssociation, ori |-> "present",
                   score |-> JNum(Int2Num(-1))]

-----------------------------------------------------------------------------
(* C23: the option defaults (v0.4.0, v2.0.0) replace only options that are  *)
(* absent: every number the caller supplies, 0 included, for threshold, or  *)
(* for min, max and places, is the value the rest of the call reads.        *)

NumericOptions ==
    IF ver = "0.4.0" THEN {"threshold"} ELSE {"min", "max", "places"}

C23_SuppliedNumbersKept ==
    op = "defaults" =>
        \A name \in NumericOptions :
            opts[name].t = "num" => result.v[name] = opts[name]

-----------------------------------------------------------------------------
(* C24: getOrientation of src/index.js (v2.0.0, v0.4.0) always returns      *)
(* 'Past', 'Present' or 'Future': the index of the maximum is 0, 1 or 2     *)
(* for every triple of scores, so the initial value of the variable         *)
(* ('Unknown', 'No temporal orientation detected.') is never returned.      *)

-----------------------------------------------------------------------------
(* C25: when no form of the lexicon is matched, or every match is filtered  *)
(* out by the threshold, each category score is exactly its intercept in    *)
(* both encodings, and the orientation prospectimo (v0.4.0) returns is      *)
(* 'Present', the category with the greatest intercept.                     *)

NothingMatched == \A c \in CatSet : matches[c] = <<>>

C25_NoMatchGivesIntercepts ==
    /\ (CalcLexUnit("0.4.0") /\ matches.v = <<>>) => result.v = icpt.v
    /\ (Scored("0.4.0") /\ NothingMatched) =>
          /\ \A c \in CatSet : lex[c] = Intercept(c)
          /\ \A c \in CatSet : ~NumGt(Intercept(c), Intercept("PRESENT"))
          /\ result.kind = "string" => result.v = "Present"
          /\ result.kind = "lex" => result.v = lex

\* frequency encoding, a form of the lexicon among the tokens, every match
\* filtered out by the threshold
C25_Witness ==
    /\ Scored("0.4.0")
    /\ enc = JStr("frequency")
    /\ \E p \in 1..Len(tokens.v) : tokens.v[p] = "was"
    /\ NothingMatched
    /\ result.kind = "string"
    /\ result.v = "Present"

=============================================================================
